---- MODULE Spec2Model ----
(***************************************************************************)
(* A model of the configuration store (src/config/settings.py), the        *)
(* localization service (src/services/localization_service.py) and the     *)
(* callers that mutate the configuration record (src/main.py,              *)
(* src/ui/screens/settings_screen.py).                                     *)
(*                                                                         *)
(* Strings the code inspects character by character (language codes,       *)
(* theme file names) are sequences of one-character strings, a word such   *)
(* as "as400" standing for its characters; JSON values are records         *)
(* [t, n, s] with a type tag t, so that a field of the wrong type is a     *)
(* value of the model.  A file is its parsed content plus a kind that says *)
(* whether it exists and parses.                                           *)
(***************************************************************************)
EXTENDS Integers, Sequences, FiniteSets, TLC

VARIABLES
    files,        \* settings files on disk: path -> content
    catalogFile,  \* content of jsons/languages.json
    sysLocale,    \* locale name the platform reports (locale / LANG ...)
    dirs,         \* directories that exist, by configured path string
    themeDir,     \* what the path themes_path names, and its entries
    _instance,    \* Settings._instance: 0 is None, otherwise an object id
    inst,         \* the fields of the object Settings._instance refers to
    nextId,       \* the id the next constructed Settings object gets
    ret,          \* what the last call did: op, raised, val, fresh, read, rep
    snap,         \* the record as it was at the last save(), and its path
    nops,         \* number of calls made so far
    localeFiles,  \* locale files on disk: lang -> [kind, dict, mtime]
    _cache,       \* LocalizationService._cache: lang -> dict, for cached langs
    _mtimes,      \* LocalizationService._mtimes: lang -> mtime
    _runtime_cache, \* LocalizationService._runtime_cache: (text, src, dest) -> str
    clock         \* filesystem clock, the source of modification times

vars == <<files, catalogFile, sysLocale, dirs, themeDir, _instance, inst, nextId,
          ret, snap, nops, localeFiles, _cache, _mtimes, _runtime_cache, clock>>

settingsVars == <<files, catalogFile, sysLocale, dirs, themeDir, _instance, inst, nextId,
                  snap>>
l10nVars == <<localeFiles, _cache, _mtimes, _runtime_cache, clock>>

-----------------------------------------------------------------------------
(* Bounds *)

MaxOps == 4
MaxRuns == 2
MaxClock == 2
MaxEntries == 3

-----------------------------------------------------------------------------
(* JSON values *)

JStr(s) == [t |-> "str", n |-> 0, s |-> s]
JInt(n) == [t |-> "int", n |-> n, s |-> <<>>]
JBool(b) == [t |-> "bool", n |-> IF b THEN 1 ELSE 0, s |-> <<>>]
JNull == [t |-> "null", n |-> 0, s |-> <<>>]
JList(n) == [t |-> "list", n |-> n, s |-> <<>>]
\* the key is not in the object
JAbsent == [t |-> "absent", n |-> 0, s |-> <<>>]

\* Python truthiness of a JSON value
Truthy(v) ==
    CASE v.t = "str" -> v.s # <<>>
      [] v.t = "int" -> v.n # 0
      [] v.t = "bool" -> v.n = 1
      [] v.t = "list" -> v.n > 0
      [] OTHER -> FALSE

\* dict.get(key, default)
GetOr(v, d) == IF v.t = "absent" THEN d ELSE v

\* str.lower() on the characters the inputs use
LowerChar(c) ==
    CASE c = "C" -> "c"
      [] c = "S" -> "s"
      [] c = "Z" -> "z"
      [] c = "E" -> "e"
      [] c = "N" -> "n"
      [] c = "X" -> "x"
      [] c = "D" -> "d"
      [] c = "K" -> "k"
      [] c = "T" -> "t"
      [] OTHER -> c

Lower(s) == [i \in 1..Len(s) |-> LowerChar(s[i])]

EN == <<"e", "n">>

\* _normalize_lang raises AttributeError on a truthy value without .replace
_normalize_lang_raises(v) == Truthy(v) /\ v.t # "str"

\* _normalize_lang(code) for a value on which it does not raise
_normalize_lang(v) ==
    IF ~Truthy(v) THEN EN
    ELSE LET code == [i \in 1..Len(v.s) |-> IF v.s[i] = "-" THEN "_" ELSE v.s[i]]
             cut == {i \in 1..Len(code) : code[i] = "_"}
             stop == IF cut = {} THEN Len(code) + 1
                     ELSE CHOOSE i \in cut : \A j \in cut : i <= j
             base == SubSeq(code, 1, stop - 1)
         IN  Lower(IF base = <<>> THEN EN ELSE base)

\* detect_system_language(): the first source that reports a locale, normalized
detect_system_language ==
    IF sysLocale # <<>> THEN _normalize_lang(JStr(sysLocale)) ELSE EN

-----------------------------------------------------------------------------
(* LanguageCatalog *)

CS == <<"c", "s">>
AR == <<"a", "r">>

Row(code) == [isdict |-> TRUE, code |-> code]
BadRow == [isdict |-> FALSE, code |-> JAbsent]

NoCatalog == [kind |-> "missing", rows |-> <<>>]

RECURSIVE RowCodes(_)
RowCodes(rows) ==
    IF rows = <<>> THEN {}
    ELSE {_normalize_lang(GetOr(Head(rows).code, JStr(<<>>)))} \cup RowCodes(Tail(rows))

\* LanguageCatalog._load: the keys of by_code
LanguageCatalog_load(c) ==
    CASE c.kind = "missing" -> {EN, CS, AR}
      [] c.kind = "garbage" -> {EN}
      [] c.kind = "notlist" -> {}
      [] OTHER ->
           IF \E i \in 1..Len(c.rows) : ~c.rows[i].isdict THEN {EN}
           ELSE RowCodes(c.rows)

\* LanguageCatalog.exists
LanguageCatalog_exists(byCode, code) == _normalize_lang(JStr(code)) \in byCode

-----------------------------------------------------------------------------
(* The configuration tree: the parsed settings file *)

PluginNames == {"p1"}
PluginCategories == {"backends", "translators", "middleware", "communication"}

\* what a section holds under a plugin name: no entry, a non-object value,
\* {} , {"enabled": true} or {"enabled": false}
OptVals == {"absent", "nondict", "empty", "on", "off"}

NoEntries == [p \in PluginNames |-> "absent"]

\* a section value: t is "obj" for a JSON object with entries m
Sec(t, m) == [t |-> t, m |-> m]
EmptySec == Sec("obj", NoEntries)

SecTruthy(sec) ==
    CASE sec.t = "obj" -> \E p \in PluginNames : sec.m[p] # "absent"
      [] sec.t = "list" -> TRUE
      [] OTHER -> FALSE

Tok(x) == <<x>>

\* the defaults of Settings.load for a missing or unreadable file
defaults ==
    [top |-> "obj",
     app |-> "obj",
     schema_version |-> JInt(1),
     locales_path |-> JStr(Tok("locales")),
     jsons_path |-> JStr(Tok("jsons")),
     languages_path |-> JStr(Tok("jsons/languages.json")),
     countries_path |-> JStr(Tok("jsons/countries.json")),
     theme |-> JStr(Tok("as400")),
     themes_path |-> JStr(Tok("src/ui/themes")),
     write_protection |-> JStr(Tok("strict")),
     i18n |-> "obj",
     ui_language |-> JStr(<<>>),
     fallback_language |-> JStr(EN),
     default_language |-> JStr(EN),
     auth |-> EmptySec,
     backends |-> EmptySec,
     translators |-> EmptySec,
     middleware |-> EmptySec,
     communication |-> EmptySec,
     first_run |-> JBool(TRUE)]

\* file contents
Missing == [kind |-> "missing", tree |-> defaults]
Empty == [kind |-> "empty", tree |-> defaults]
Blank == [kind |-> "blank", tree |-> defaults]
Garbage == [kind |-> "garbage", tree |-> defaults]
Json(tree) == [kind |-> "json", tree |-> tree]

-----------------------------------------------------------------------------
(* Settings.__init__ *)

\* app_cfg.get(key, default), app_cfg being {} unless data["app"] is an object
AppGet(data, v, d) == IF data.app = "obj" THEN GetOr(v, d) ELSE d
I18nGet(data, v, d) == IF data.i18n = "obj" THEN GetOr(v, d) ELSE d

IsDigit(s) == Len(s) = 1 /\ s[1] \in {"0", "1", "2", "3"}
DigitVal(c) == CASE c = "0" -> 0 [] c = "1" -> 1 [] c = "2" -> 2 [] OTHER -> 3

\* int(x): the exception it raises, or "none"
IntRaises(v) ==
    CASE v.t \in {"int", "bool"} -> "none"
      [] v.t = "str" -> IF IsDigit(v.s) THEN "none" ELSE "ValueError"
      [] OTHER -> "TypeError"

IntOf(v) == IF v.t = "str" THEN DigitVal(v.s[1]) ELSE v.n

\* Path(x) raises TypeError unless x is a string
PathRaises(v) == v.t # "str"

\* Path(p).exists() for a directory path
DirExists(v) == v.s \in dirs

\* the file Path(languages_path) names
CatalogAt(v) == IF v = defaults.languages_path THEN catalogFile ELSE NoCatalog

\* data.get(sec, {}) or {}, then reset to {} unless a dict
CoerceSection(sec) ==
    LET v == IF sec.t = "absent" \/ ~SecTruthy(sec) THEN EmptySec ELSE sec
    IN  IF v.t # "obj" THEN EmptySec ELSE v

Warning(kind, code, ex) == [kind |-> kind, code |-> code, ex |-> ex]

WarnIf(cond, w) == IF cond THEN <<w>> ELSE <<>>

SectionOrder == <<"backends", "translators", "middleware", "communication", "auth">>

\* _soft_validate, "Minimal structure checks": one warning per section that is
\* not a dict when it runs
RECURSIVE _soft_validate_sections(_, _)
_soft_validate_sections(secs, names) ==
    IF names = <<>> THEN <<>>
    ELSE WarnIf(secs[Head(names)].t # "obj", Warning("section", <<Head(names)>>, ""))
         \o _soft_validate_sections(secs, Tail(names))

NoInst == [none |-> TRUE]

\* Settings(data, path): [raised |-> the exception or "none", s |-> the object]
Settings_init(data, path) ==
    IF data.top # "obj" THEN [raised |-> "AttributeError", s |-> NoInst]
    ELSE
    LET sv == AppGet(data, data.schema_version, JInt(1))
        locales == AppGet(data, data.locales_path, defaults.locales_path)
        jsons == AppGet(data, data.jsons_path, defaults.jsons_path)
        langsPath == AppGet(data, data.languages_path, defaults.languages_path)
        countries == AppGet(data, data.countries_path, defaults.countries_path)
        wp == AppGet(data, data.write_protection, defaults.write_protection)
        theme == AppGet(data, data.theme, defaults.theme)
        themes == AppGet(data, data.themes_path, defaults.themes_path)
        ui0 == I18nGet(data, data.ui_language, JStr(<<>>))
        fb0 == I18nGet(data, data.fallback_language, JStr(EN))
        df0 == I18nGet(data, data.default_language, JStr(EN))
        secs == [backends |-> CoerceSection(data.backends),
                 translators |-> CoerceSection(data.translators),
                 middleware |-> CoerceSection(data.middleware),
                 communication |-> CoerceSection(data.communication),
                 auth |-> CoerceSection(data.auth)]
        fr == IF data.first_run.t = "bool"
              THEN (IF data.first_run.n = 1 THEN "true" ELSE "false")
              ELSE "none"
        \* _post_init_language_normalization
        ui1 == IF ~Truthy(ui0) THEN JStr(detect_system_language) ELSE ui0
        raised ==
            CASE IntRaises(sv) # "none" -> IntRaises(sv)
              [] PathRaises(langsPath) \/ PathRaises(countries) -> "TypeError"
              [] _normalize_lang_raises(fb0) \/ _normalize_lang_raises(df0) \/ _normalize_lang_raises(ui1)
                   -> "AttributeError"
              [] PathRaises(jsons) \/ PathRaises(locales) -> "TypeError"
              [] OTHER -> "none"
    IN  IF raised # "none" THEN [raised |-> raised, s |-> NoInst]
        ELSE
        LET byCode == LanguageCatalog_load(CatalogAt(langsPath))
            fb == _normalize_lang(fb0)
            df == _normalize_lang(df0)
            ui == _normalize_lang(ui1)
            uiOk == LanguageCatalog_exists(byCode, ui)
            fbOk == LanguageCatalog_exists(byCode, fb)
            dfOk == LanguageCatalog_exists(byCode, df)
            warnings ==
                WarnIf(~uiOk, Warning("ui_language", ui, ""))
                \o WarnIf(~fbOk, Warning("fallback_language", fb, ""))
                \o WarnIf(~dfOk, Warning("default_language", df, ""))
                \o WarnIf(~DirExists(jsons), Warning("jsons_path", jsons.s, ""))
                \o WarnIf(~DirExists(locales), Warning("locales_path", locales.s, ""))
                \o _soft_validate_sections(secs, SectionOrder)
        IN  [raised |-> "none",
             s |-> [path |-> path,
                    schema_version |-> IntOf(sv),
                    locales_path |-> locales,
                    jsons_path |-> jsons,
                    languages_path |-> langsPath,
                    countries_path |-> countries,
                    write_protection |-> wp,
                    theme |-> theme,
                    themes_path |-> themes,
                    languages |-> byCode,
                    ui_language |-> IF uiOk THEN ui ELSE EN,
                    fallback_language |-> IF fbOk THEN fb ELSE EN,
                    default_language |-> IF dfOk THEN df ELSE EN,
                    backends |-> secs.backends,
                    translators |-> secs.translators,
                    middleware |-> secs.middleware,
                    communication |-> secs.communication,
                    auth |-> secs.auth,
                    first_run |-> fr,
                    warnings |-> warnings,
                    errors |-> <<>>]]

\* an inference that also asks for an empty communication section
is_first_run_all_sections(s) ==
    IF s.first_run = "none"
    THEN ~SecTruthy(s.auth) /\ ~SecTruthy(s.backends)
         /\ ~SecTruthy(s.translators) /\ ~SecTruthy(s.middleware)
         /\ ~SecTruthy(s.communication)
    ELSE s.first_run = "true"

\* Settings.is_first_run
is_first_run(s) ==
    IF s.first_run = "none"
    THEN ~SecTruthy(s.auth) /\ ~SecTruthy(s.backends)
         /\ ~SecTruthy(s.translators) /\ ~SecTruthy(s.middleware)
    ELSE s.first_run = "true"

\* Settings.should_open_settings
should_open_settings(s) ==
    IF is_first_run(s) THEN TRUE
    ELSE IF s.warnings # <<>> THEN TRUE
    ELSE IF s.errors # <<>> THEN TRUE
    ELSE FALSE

\* the tree Settings.save serializes
save_data(s) ==
    [top |-> "obj",
     app |-> "obj",
     schema_version |-> JInt(s.schema_version),
     locales_path |-> s.locales_path,
     jsons_path |-> s.jsons_path,
     languages_path |-> s.languages_path,
     countries_path |-> s.countries_path,
     theme |-> s.theme,
     themes_path |-> s.themes_path,
     write_protection |-> s.write_protection,
     i18n |-> "obj",
     ui_language |-> JStr(s.ui_language),
     fallback_language |-> JStr(s.fallback_language),
     default_language |-> JStr(s.default_language),
     auth |-> s.auth,
     backends |-> s.backends,
     translators |-> s.translators,
     middleware |-> s.middleware,
     communication |-> s.communication,
     first_run |-> JBool(FALSE)]

-----------------------------------------------------------------------------
(* Locale dictionaries and files *)

Langs == {EN, CS}
Keys == {"hello", "bye"}

\* a dictionary maps each key it holds to a string; "<absent>" marks a key it
\* does not hold
NoDict == [k \in Keys |-> "<absent>"]
NoLocaleFile == [kind |-> "missing", dict |-> NoDict, mtime |-> -1]

\* a dict with no key
EmptyMap == [k \in {} |-> <<>>]

\* LocalizationService.__init__: nothing cached; -2 stands for no recorded mtime
L10nFresh ==
    /\ _cache = [l \in Langs |-> [cached |-> FALSE, dict |-> NoDict]]
    /\ _mtimes = [l \in Langs |-> -2]
    /\ _runtime_cache = EmptyMap

L10nIdle ==
    /\ localeFiles = [l \in Langs |-> NoLocaleFile]
    /\ clock = 0
    /\ L10nFresh

-----------------------------------------------------------------------------
(* Calls on the configuration store *)

Paths == {"settings.json", "alt.json"}

StartRet == [op |-> "start", raised |-> "none", val |-> 0, fresh |-> FALSE,
             read |-> FALSE, rep |-> FALSE, path |-> "",
             lang |-> <<>>, out |-> "", data |-> NoDict, diff |-> <<{}, {}>>,
             key |-> "", list |-> <<>>, text |-> <<>>, invoked |-> FALSE,
             args |-> <<>>, category |-> "", name |-> "", enabled |-> FALSE]

Ret(op, raised, val, fresh, read, path) ==
    [op |-> op, raised |-> raised, val |-> val, fresh |-> fresh, read |-> read,
     rep |-> (ret.op = op), path |-> path,
     lang |-> <<>>, out |-> "", data |-> NoDict, diff |-> <<{}, {}>>,
     key |-> "", list |-> <<>>, text |-> <<>>, invoked |-> FALSE,
     args |-> <<>>, category |-> "", name |-> "", enabled |-> FALSE]

NoSnap == [path |-> "", rec |-> NoInst]

\* a load whose empty-file check returns the defaults without raising
ParseWarningOnDecodeOnly(kind) ==
    IF kind = "garbage" THEN <<Warning("parse", <<>>, "JSONDecodeError")>> ELSE <<>>

\* the warning Settings.load appends when reading or parsing the file raised
ParseWarning(kind) ==
    CASE kind \in {"empty", "blank"} -> <<Warning("parse", <<>>, "ValueError")>>
      [] kind = "garbage" -> <<Warning("parse", <<>>, "JSONDecodeError")>>
      [] OTHER -> <<>>

\* Settings.load with the singleton set: return it
load_existing(p) ==
    /\ ret' = Ret("load", "none", _instance, FALSE, FALSE, p)
    /\ UNCHANGED <<_instance, inst, nextId>>

\* Settings.load with no singleton: the three ways to build one
load_fresh(p) ==
    LET f == files[p]
        c == Settings_init(IF f.kind = "json" THEN f.tree ELSE defaults, p)
    IN  /\ nextId <= MaxRuns
        /\ IF c.raised # "none"
           THEN /\ ret' = Ret("load", c.raised, 0, FALSE, TRUE, p)
                /\ UNCHANGED <<_instance, inst, nextId>>
           ELSE /\ _instance' = nextId
                /\ nextId' = nextId + 1
                /\ inst' = [c.s EXCEPT !.warnings = @ \o ParseWarning(f.kind)]
                /\ ret' = Ret("load", "none", nextId, TRUE, TRUE, p)

\* a load without the singleton guard
load_always_fresh(p) ==
    /\ nops < MaxOps
    /\ nops' = nops + 1
    /\ load_fresh(p)
    /\ UNCHANGED <<files, catalogFile, sysLocale, dirs, themeDir, snap, l10nVars>>

load(p) ==
    /\ nops < MaxOps
    /\ nops' = nops + 1
    /\ IF _instance # 0 THEN load_existing(p) ELSE load_fresh(p)
    /\ UNCHANGED <<files, catalogFile, sysLocale, dirs, themeDir, snap, l10nVars>>

\* Settings.save that also clears the first-run marker of the record in memory
save_marking ==
    /\ nops < MaxOps
    /\ _instance # 0
    /\ nops' = nops + 1
    /\ inst' = [inst EXCEPT !.first_run = "false"]
    /\ files' = [files EXCEPT ![inst.path] = Json(save_data(inst))]
    /\ snap' = [path |-> inst.path, rec |-> inst]
    /\ ret' = Ret("save", "none", 0, FALSE, FALSE, inst.path)
    /\ UNCHANGED <<catalogFile, sysLocale, dirs, themeDir, _instance, nextId, l10nVars>>

\* Settings.save, with a record that a migration step bumps on every save
save_bumping ==
    /\ nops < MaxOps
    /\ _instance # 0
    /\ nops' = nops + 1
    /\ inst' = [inst EXCEPT !.schema_version = @ + 1]
    /\ files' = [files EXCEPT ![inst.path] = Json(save_data(inst'))]
    /\ snap' = [path |-> inst.path, rec |-> inst']
    /\ ret' = Ret("save", "none", 0, FALSE, FALSE, inst.path)
    /\ UNCHANGED <<catalogFile, sysLocale, dirs, themeDir, _instance, nextId, l10nVars>>

save ==
    /\ nops < MaxOps
    /\ _instance # 0
    /\ nops' = nops + 1
    /\ files' = [files EXCEPT ![inst.path] = Json(save_data(inst))]
    /\ snap' = [path |-> inst.path, rec |-> inst]
    /\ ret' = Ret("save", "none", 0, FALSE, FALSE, inst.path)
    /\ UNCHANGED <<catalogFile, sysLocale, dirs, themeDir, _instance, inst, nextId, l10nVars>>

\* LocalizationService.set_language
set_language(lang) ==
    /\ nops < MaxOps
    /\ _instance # 0
    /\ nops' = nops + 1
    /\ inst' = [inst EXCEPT !.ui_language = Lower(lang)]
    /\ ret' = Ret("set_language", "none", 0, FALSE, FALSE, "")
    /\ UNCHANGED <<files, catalogFile, sysLocale, dirs, themeDir, _instance, nextId, snap, l10nVars>>

\* DMApp.switch_theme
switch_theme(name) ==
    /\ nops < MaxOps
    /\ _instance # 0
    /\ nops' = nops + 1
    /\ inst' = [inst EXCEPT !.theme = JStr(name)]
    /\ ret' = Ret("switch_theme", "none", 0, FALSE, FALSE, "")
    /\ UNCHANGED <<files, catalogFile, sysLocale, dirs, themeDir, _instance, nextId, snap, l10nVars>>

\* Settings.get_plugin_options: [raised, s |-> the record afterwards, opts |->
\* the options dict returned]; an entry that is missing or not a dict is
\* replaced by {} in the section
get_plugin_options(s, category, name) ==
    IF category \notin PluginCategories
    THEN [raised |-> "ValueError", s |-> s, opts |-> "absent"]
    ELSE LET cur == s[category].m[name]
             opts == IF cur \in {"absent", "nondict"} THEN "empty" ELSE cur
         IN  [raised |-> "none",
              s |-> [s EXCEPT ![category].m[name] = opts],
              opts |-> opts]

\* Settings.set_plugin_enabled, through get_plugin_options
set_plugin_enabled(category, name, enabled) ==
    LET g == get_plugin_options(inst, category, name)
    IN  /\ nops < MaxOps
        /\ _instance # 0
        /\ nops' = nops + 1
        /\ IF g.raised # "none"
           THEN /\ ret' = [Ret("set_plugin_enabled", g.raised, 0, FALSE, FALSE, "")
                             EXCEPT !.category = category, !.name = name,
                                    !.enabled = enabled]
                /\ inst' = g.s
           ELSE /\ inst' = [g.s EXCEPT ![category].m[name] =
                                          IF enabled THEN "on" ELSE "off"]
                /\ ret' = [Ret("set_plugin_enabled", "none", 0, FALSE, FALSE, "")
                             EXCEPT !.category = category, !.name = name,
                                    !.enabled = enabled]
        /\ UNCHANGED <<files, catalogFile, sysLocale, dirs, themeDir, _instance, nextId, snap, l10nVars>>

\* Settings.plugin_enabled, through get_plugin_options; ret.enabled is the
\* value returned
plugin_enabled(category, name) ==
    LET g == get_plugin_options(inst, category, name)
    IN  /\ nops < MaxOps
        /\ _instance # 0
        /\ nops' = nops + 1
        /\ inst' = g.s
        /\ ret' = [Ret("plugin_enabled", g.raised, 0, FALSE, FALSE, "")
                     EXCEPT !.category = category, !.name = name,
                            !.enabled = (g.raised = "none" /\ g.opts = "on")]
        /\ UNCHANGED <<files, catalogFile, sysLocale, dirs, themeDir, _instance, nextId, snap, l10nVars>>

\* the process ends and a new one starts: class attribute _instance is None again
Restart ==
    /\ _instance # 0
    /\ nextId <= MaxRuns
    /\ _instance' = 0
    /\ inst' = NoInst
    /\ ret' = StartRet
    /\ UNCHANGED <<files, catalogFile, sysLocale, dirs, themeDir, nextId, snap, nops, l10nVars>>

-----------------------------------------------------------------------------
(* Themes *)

TCSS == <<".", "t", "c", "s", "s">>
CUSTOM == <<".", "c", "u", "s", "t", "o", "m">>
AS400 == Tok("as400")

\* base_css of resolve_theme_files
base_css == Tok("src/ui/styles/base.tcss")

\* the characters of the class [a-z0-9_\-] among those the inputs use; a word
\* such as "as400" stands for its characters
BaseChars ==
    {"a", "c", "d", "e", "k", "m", "n", "o", "s", "t", "u", "x", "z", "_", "-", "4", "0",
     "as400", "dark", "notes", "nope"}

EndsWith(s, suffix) ==
    Len(s) >= Len(suffix) /\ SubSeq(s, Len(s) - Len(suffix) + 1, Len(s)) = suffix

DropLast(s, n) == SubSeq(s, 1, Len(s) - n)

\* _THEME_FILE_RE.match(name), case-insensitive: the groups base and custom.
\* base holds no ".", so a stem that ends in ".custom" has its custom group set.
_THEME_FILE_RE(fn) ==
    LET stem == DropLast(fn, Len(TCSS))
        custom == EndsWith(Lower(stem), CUSTOM) /\ Len(stem) > Len(CUSTOM)
        base == IF custom THEN DropLast(stem, Len(CUSTOM)) ELSE stem
    IN  IF /\ EndsWith(Lower(fn), TCSS)
           /\ base # <<>>
           /\ \A i \in 1..Len(base) : LowerChar(base[i]) \in BaseChars
        THEN [match |-> TRUE, base |-> base, custom |-> custom]
        ELSE [match |-> FALSE, base |-> <<>>, custom |-> FALSE]

\* what themes_path names: nothing, a regular file, or a directory with entries
\* [name, isfile]; fold tells whether the file system ignores case in names
NoThemeDir == [kind |-> "missing", entries |-> {}, fold |-> FALSE]

\* Path(themes_path) / name, exists()
ThemeFileExists(fn) ==
    /\ themeDir.kind = "dir"
    /\ \E e \in themeDir.entries :
          IF themeDir.fold THEN Lower(e.name) = Lower(fn) ELSE e.name = fn

\* str(Path(themes_path) / name)
ThemePath(s, fn) == s.themes_path.s \o <<"/">> \o fn

\* the ThemeInfo _scan_themes appends for a matching file: name, path and kind
\* (the metadata fields come from the file's text and play no part in the order)
ThemeInfo(s, fn) ==
    LET m == _THEME_FILE_RE(fn)
    IN  [name |-> Lower(m.base), path |-> ThemePath(s, fn),
         kind |-> IF m.custom THEN "custom" ELSE "system"]

RECURSIVE ScanEntries(_, _)
ScanEntries(s, order) ==
    IF order = <<>> THEN <<>>
    ELSE LET e == Head(order)
         IN  (IF e.isfile /\ _THEME_FILE_RE(e.name).match
              THEN <<ThemeInfo(s, e.name)>> ELSE <<>>) \o ScanEntries(s, Tail(order))

\* _scan_themes, order being the order in which iterdir yields the entries
_scan_themes(s, order) ==
    IF s.themes_path.t # "str" THEN [raised |-> "TypeError", list |-> <<>>]
    ELSE IF themeDir.kind = "missing" THEN [raised |-> "none", list |-> <<>>]
    ELSE IF themeDir.kind = "file" THEN [raised |-> "NotADirectoryError", list |-> <<>>]
    ELSE [raised |-> "none", list |-> ScanEntries(s, order)]

\* the code point that orders a character; a word is ordered by its first one
Ord(c) ==
    CASE c = "-" -> 450
      [] c = "0" -> 480
      [] c = "4" -> 520
      [] c = "_" -> 950
      [] c = "a" -> 970
      [] c = "as400" -> 975
      [] c = "c" -> 990
      [] c = "d" -> 1000
      [] c = "dark" -> 1005
      [] c = "k" -> 1070
      [] c = "n" -> 1100
      [] c = "nope" -> 1105
      [] c = "x" -> 1200
      [] OTHER -> 1220

\* a < b on strings
RECURSIVE StrLess(_, _)
StrLess(a, b) ==
    IF b = <<>> THEN FALSE
    ELSE IF a = <<>> THEN TRUE
    ELSE IF Head(a) # Head(b) THEN Ord(Head(a)) < Ord(Head(b))
    ELSE StrLess(Tail(a), Tail(b))

\* the sort key (t.name, 0 if t.kind == "custom" else 1)
KeyLess(a, b) ==
    \/ StrLess(a.name, b.name)
    \/ a.name = b.name /\ a.kind = "custom" /\ b.kind = "system"

\* list.sort is stable: x goes behind the elements whose key is not greater
RECURSIVE InsertTheme(_, _)
InsertTheme(x, sorted) ==
    IF sorted = <<>> THEN <<x>>
    ELSE IF KeyLess(x, Head(sorted)) THEN <<x>> \o sorted
    ELSE <<Head(sorted)>> \o InsertTheme(x, Tail(sorted))

RECURSIVE SortThemes(_)
SortThemes(l) ==
    IF l = <<>> THEN <<>>
    ELSE InsertTheme(l[Len(l)], SortThemes(SubSeq(l, 1, Len(l) - 1)))

\* the loop of available_themes that keeps the first entry of each name
RECURSIVE UniqueByName(_, _)
UniqueByName(l, seen) ==
    IF l = <<>> THEN <<>>
    ELSE IF Head(l).name \in seen THEN UniqueByName(Tail(l), seen)
    ELSE <<Head(l)>> \o UniqueByName(Tail(l), seen \cup {Head(l).name})

\* the orders in which iterdir may yield a set of entries
Orders(S) ==
    {f \in [1..Cardinality(S) -> S] : \A x \in S : \E i \in 1..Cardinality(S) : f[i] = x}

\* Settings.available_themes
available_themes ==
    /\ nops < MaxOps
    /\ _instance # 0
    /\ nops' = nops + 1
    /\ \E order \in Orders(themeDir.entries) :
          LET r == _scan_themes(inst, order)
          IN  ret' = [Ret("available_themes", r.raised, 0, FALSE, FALSE, "") EXCEPT
                         !.list = UniqueByName(SortThemes(r.list), {})]
    /\ UNCHANGED <<files, catalogFile, sysLocale, dirs, themeDir, _instance, inst, nextId,
                   snap, l10nVars>>

\* Settings.resolve_theme_files(name), name <<>> standing for None and for ""
resolve_theme_files(name) ==
    LET chosen == IF name # <<>> THEN JStr(name)
                  ELSE IF Truthy(inst.theme) THEN inst.theme ELSE JStr(AS400)
        n == Lower(chosen.s)
        candidate_custom == n \o CUSTOM \o TCSS
        candidate_system == n \o TCSS
        fallback_custom == AS400 \o CUSTOM \o TCSS
        fallback_system == AS400 \o TCSS
        raised == IF chosen.t # "str" THEN "AttributeError"
                  ELSE IF inst.themes_path.t # "str" THEN "TypeError"
                  ELSE "none"
        list == IF raised # "none" THEN <<>>
                ELSE IF ThemeFileExists(candidate_custom)
                THEN <<base_css, ThemePath(inst, candidate_custom)>>
                ELSE IF ThemeFileExists(candidate_system)
                THEN <<base_css, ThemePath(inst, candidate_system)>>
                ELSE IF ThemeFileExists(fallback_custom)
                THEN <<base_css, ThemePath(inst, fallback_custom)>>
                ELSE IF ThemeFileExists(fallback_system)
                THEN <<base_css, ThemePath(inst, fallback_system)>>
                ELSE <<base_css>>
    IN  /\ nops < MaxOps
        /\ _instance # 0
        /\ nops' = nops + 1
        /\ ret' = [Ret("resolve_theme_files", raised, 0, FALSE, FALSE, "") EXCEPT
                      !.list = list, !.text = name]
        /\ UNCHANGED <<files, catalogFile, sysLocale, dirs, themeDir, _instance, inst,
                       nextId, snap, l10nVars>>

-----------------------------------------------------------------------------
(* LocalizationService *)

\* the attributes a Settings object has: what __init__ assigns to self and what
\* the class body defines.  The function _abs is defined inside __init__ and
\* bound to nothing, so it is not one of them.
SettingsAttributes ==
    {"_path", "_root", "warnings", "errors", "schema_version", "locales_path",
     "jsons_path", "languages_path", "countries_path", "write_protection", "theme",
     "themes_path", "languages", "countries", "ui_language", "fallback_language",
     "default_language", "backends", "translators", "middleware", "communication",
     "auth", "_first_run", "_instance", "load", "_parse_theme_meta", "_scan_themes",
     "available_themes", "resolve_theme_files", "_post_init_language_normalization",
     "_soft_validate", "save", "is_first_run", "is_rtl", "language_display",
     "get_plugin_options", "set_plugin_enabled", "plugin_enabled",
     "helper_json_path", "should_open_settings"}

\* _lang_file evaluates self.settings._abs: AttributeError unless it exists
_lang_file_raises == "_abs" \notin SettingsAttributes

\* _file_mtime, given the file _lang_file names
_file_mtime(f) == IF f.kind = "missing" THEN -1 ELSE f.mtime

\* the dictionary _load_lang makes of a file
ParseLocale(f) == IF f.kind = "dict" THEN f.dict ELSE NoDict

Held(d) == {k \in Keys : d[k] # "<absent>"}

\* _load_lang(lang) on cache c and recorded mtimes m
_load_lang(c, m, lang) ==
    LET l == Lower(lang)
    IN  IF _lang_file_raises
        THEN [raised |-> "AttributeError", data |-> NoDict, cache |-> c, mtimes |-> m,
              read |-> FALSE]
        ELSE IF c[l].cached /\ m[l] # -2 /\ m[l] = _file_mtime(localeFiles[l])
        THEN [raised |-> "none", data |-> c[l].dict, cache |-> c, mtimes |-> m,
              read |-> FALSE]
        ELSE [raised |-> "none",
              data |-> ParseLocale(localeFiles[l]),
              cache |-> [c EXCEPT ![l] = [cached |-> TRUE, dict |-> ParseLocale(localeFiles[l])]],
              mtimes |-> [m EXCEPT ![l] = _file_mtime(localeFiles[l])],
              read |-> localeFiles[l].kind # "missing"]

\* _write_lang(lang, data) on cache c and recorded mtimes m
_write_lang(c, m, lang, data) ==
    LET l == Lower(lang)
    IN  IF _lang_file_raises
        THEN [raised |-> "AttributeError", cache |-> c, mtimes |-> m,
              files |-> localeFiles, clock |-> clock]
        ELSE [raised |-> "none",
              cache |-> [c EXCEPT ![l] = [cached |-> TRUE, dict |-> data]],
              mtimes |-> [m EXCEPT ![l] = clock + 1],
              files |-> [localeFiles EXCEPT
                            ![l] = [kind |-> "dict", dict |-> data, mtime |-> clock + 1]],
              clock |-> clock + 1]

Translated(v) == v \notin {"<absent>", ""}

\* a call on the service: it exists once the settings are loaded
L10nCall ==
    /\ nops < MaxOps
    /\ _instance # 0
    /\ nops' = nops + 1
    /\ UNCHANGED settingsVars

\* LocalizationService.get(key, lang=lang), lang <<>> standing for no lang
get(key, lang) ==
    LET primary == Lower(IF lang # <<>> THEN lang ELSE inst.ui_language)
        default == Lower(inst.default_language)
        r1 == _load_lang(_cache, _mtimes, primary)
        hit == r1.raised = "none" /\ Translated(r1.data[key])
        r2 == IF r1.raised # "none" \/ hit THEN r1 ELSE _load_lang(r1.cache, r1.mtimes, default)
        out == CASE r2.raised # "none" -> ""
                 [] hit -> r1.data[key]
                 [] Translated(r2.data[key]) -> r2.data[key]
                 [] OTHER -> key
    IN  /\ L10nCall
        /\ primary \in Langs /\ default \in Langs
        /\ _cache' = r2.cache
        /\ _mtimes' = r2.mtimes
        /\ ret' = [Ret("get", r2.raised, 0, FALSE, r1.read, "") EXCEPT
                      !.lang = primary, !.out = out, !.data = r1.data, !.key = key]
        /\ UNCHANGED <<localeFiles, clock, _runtime_cache>>

\* LocalizationService.ensure_default_key(key)
ensure_default_key(key) ==
    LET dlang == Lower(inst.default_language)
        r == _load_lang(_cache, _mtimes, dlang)
        d == [r.data EXCEPT ![key] = key]
        \* d[key] = key changes the cached dictionary itself
        c == [r.cache EXCEPT ![dlang].dict = d]
        w == IF r.raised = "none" /\ r.data[key] = "<absent>"
             THEN _write_lang(c, r.mtimes, dlang, d)
             ELSE [raised |-> r.raised, cache |-> r.cache, mtimes |-> r.mtimes,
                   files |-> localeFiles, clock |-> clock]
    IN  /\ L10nCall
        /\ dlang \in Langs
        /\ w.clock <= MaxClock
        /\ _cache' = w.cache
        /\ _mtimes' = w.mtimes
        /\ localeFiles' = w.files
        /\ clock' = w.clock
        /\ UNCHANGED _runtime_cache
        /\ ret' = [Ret("ensure_default_key", w.raised, 0, FALSE, r.read, "") EXCEPT
                      !.lang = dlang, !.data = r.data, !.key = key]

\* the target's entries after the two loops of sync_language_with_default
SyncedDict(src, tgt) ==
    [k \in Keys |-> CASE src[k] = "<absent>" -> "<absent>"
                      [] tgt[k] = "<absent>" -> ""
                      [] OTHER -> tgt[k]]

\* LocalizationService.sync_language_with_default(lang)
sync_language_with_default(lang) ==
    LET l == Lower(lang)
        r1 == _load_lang(_cache, _mtimes, inst.default_language)
        r2 == IF r1.raised # "none" THEN r1 ELSE _load_lang(r1.cache, r1.mtimes, l)
        tgt == SyncedDict(r1.data, r2.data)
        changed == r2.raised = "none" /\ Held(tgt) # Held(r2.data)
        c == [r2.cache EXCEPT ![l].dict = tgt]
        w == IF changed
             THEN _write_lang(c, r2.mtimes, l, tgt)
             ELSE [raised |-> r2.raised, cache |-> r2.cache, mtimes |-> r2.mtimes,
                   files |-> localeFiles, clock |-> clock]
    IN  /\ L10nCall
        /\ l \in Langs /\ inst.default_language \in Langs
        /\ w.clock <= MaxClock
        /\ _cache' = w.cache
        /\ _mtimes' = w.mtimes
        /\ localeFiles' = w.files
        /\ clock' = w.clock
        /\ UNCHANGED _runtime_cache
        /\ ret' = [Ret("sync_language_with_default", w.raised, IF changed THEN 1 ELSE 0,
                       FALSE, r2.read, "") EXCEPT !.lang = l, !.data = tgt]

\* LocalizationService.compute_diff_with_default(lang)
compute_diff_with_default(lang) ==
    LET l == Lower(lang)
        r1 == _load_lang(_cache, _mtimes, inst.default_language)
        r2 == IF r1.raised # "none" THEN r1 ELSE _load_lang(r1.cache, r1.mtimes, l)
    IN  /\ L10nCall
        /\ l \in Langs /\ inst.default_language \in Langs
        /\ _cache' = r2.cache
        /\ _mtimes' = r2.mtimes
        /\ ret' = [Ret("compute_diff_with_default", r2.raised, 0, FALSE, r2.read, "") EXCEPT
                      !.lang = l,
                      !.diff = IF r2.raised # "none" THEN <<{}, {}>>
                               ELSE <<Held(r1.data) \ Held(r2.data),
                                      Held(r2.data) \ Held(r1.data)>>]
        /\ UNCHANGED <<localeFiles, clock, _runtime_cache>>

\* a refresh that drops the runtime translations as well
refresh_dropping_runtime(lang) ==
    LET l == Lower(lang)
    IN  /\ L10nCall
        /\ lang # <<>> => l \in Langs
        /\ _cache' = [x \in Langs |-> IF lang = <<>> \/ x = l
                                     THEN [cached |-> FALSE, dict |-> NoDict]
                                     ELSE _cache[x]]
        /\ _mtimes' = [x \in Langs |-> IF lang = <<>> \/ x = l THEN -2 ELSE _mtimes[x]]
        /\ _runtime_cache' = EmptyMap
        /\ ret' = [Ret("refresh_language_cache", "none", 0, FALSE, FALSE, "") EXCEPT
                      !.lang = l]
        /\ UNCHANGED <<localeFiles, clock>>

\* LocalizationService.refresh_language_cache(lang), lang <<>> standing for None
refresh_language_cache(lang) ==
    LET l == Lower(lang)
    IN  /\ L10nCall
        /\ lang # <<>> => l \in Langs
        /\ _cache' = [x \in Langs |-> IF lang = <<>> \/ x = l
                                     THEN [cached |-> FALSE, dict |-> NoDict]
                                     ELSE _cache[x]]
        /\ _mtimes' = [x \in Langs |-> IF lang = <<>> \/ x = l THEN -2 ELSE _mtimes[x]]
        /\ ret' = [Ret("refresh_language_cache", "none", 0, FALSE, FALSE, "") EXCEPT
                      !.lang = l]
        /\ UNCHANGED <<localeFiles, clock, _runtime_cache>>

\* the translator argument: None, or an object whose translate() raises an
\* Exception or returns a value
NoTranslator == [t |-> "none", n |-> 0, s |-> <<>>]
TranslatorRaises == [t |-> "raise", n |-> 0, s |-> <<>>]

\* str.strip() of a string whose only whitespace is " "
Strip(s) ==
    LET keep == {i \in 1..Len(s) : s[i] # " "}
    IN  IF keep = {} THEN <<>>
        ELSE SubSeq(s, CHOOSE i \in keep : \A j \in keep : i <= j,
                       CHOOSE i \in keep : \A j \in keep : j <= i)

\* a result that is cached whatever it is
AnyString(translated) == translated.t = "str"

\* isinstance(translated, str) and translated.strip()
UsableTranslation(translated) == translated.t = "str" /\ Strip(translated.s) # <<>>

\* LocalizationService.translate_runtime(text, src_lang, dest_lang, translator),
\* <<>> standing for a language that is None or ""
translate_runtime(text, src_lang, dest_lang, translator) ==
    LET src == Lower(IF src_lang # <<>> THEN src_lang ELSE inst.default_language)
        dest == Lower(IF dest_lang # <<>> THEN dest_lang ELSE inst.ui_language)
        key == <<text, src, dest>>
        hit == key \in DOMAIN _runtime_cache
        invoked == src # dest /\ ~hit /\ translator.t # "none"
        translated == invoked /\ translator.t # "raise" /\ UsableTranslation(translator)
        out == IF src = dest THEN text
               ELSE IF hit THEN _runtime_cache[key]
               ELSE IF translated THEN translator.s
               ELSE text
    IN  /\ L10nCall
        /\ _runtime_cache' = IF src = dest \/ hit THEN _runtime_cache
                             ELSE [k \in DOMAIN _runtime_cache \cup {key} |->
                                      IF k = key THEN out ELSE _runtime_cache[k]]
        /\ ret' = [Ret("translate_runtime", "none", 0, FALSE, FALSE, "") EXCEPT
                      !.text = out, !.invoked = invoked,
                      !.args = <<text, src_lang, dest_lang, translator>>]
        /\ UNCHANGED <<localeFiles, _cache, _mtimes, clock>>

\* another process or an editor writes, touches or removes a locale file
ExternalWrite(lang, content) ==
    /\ nops < MaxOps
    /\ clock < MaxClock
    /\ nops' = nops + 1
    /\ clock' = clock + 1
    /\ localeFiles' = [localeFiles EXCEPT ![lang] =
                          IF content.kind = "missing" THEN NoLocaleFile
                          ELSE [content EXCEPT !.mtime = clock + 1]]
    /\ ret' = [Ret("external", "none", 0, FALSE, FALSE, "") EXCEPT !.lang = lang]
    /\ UNCHANGED <<settingsVars, _cache, _mtimes, _runtime_cache>>

\* the ways Path.write_text can go: it succeeds, it raises before the file is
\* opened (the file keeps its content), or it raises after the open truncated it
WriteOutcomes == {"ok", "open fails", "write fails"}

\* the locale files after another process wrote content to the file of l at time t
WrittenOutside(f, l, content, t) ==
    [f EXCEPT ![l] = IF content.kind = "missing" THEN NoLocaleFile
                     ELSE [content EXCEPT !.mtime = t]]

\* _write_lang(lang, data) on cache c, recorded mtimes m, files f and clock t,
\* with the outcome of write_text
_write_lang_to(c, m, f, t, lang, data, outcome) ==
    LET l == Lower(lang)
    IN  IF _lang_file_raises
        THEN [raised |-> "AttributeError", cache |-> c, mtimes |-> m,
              files |-> f, clock |-> t]
        ELSE IF outcome = "open fails"
        THEN [raised |-> "OSError", cache |-> c, mtimes |-> m, files |-> f, clock |-> t]
        ELSE IF outcome = "write fails"
        THEN [raised |-> "OSError", cache |-> c, mtimes |-> m,
              files |-> [f EXCEPT ![l] = [kind |-> "garbage", dict |-> NoDict,
                                          mtime |-> t + 1]],
              clock |-> t + 1]
        ELSE [raised |-> "none",
              cache |-> [c EXCEPT ![l] = [cached |-> TRUE, dict |-> data]],
              mtimes |-> [m EXCEPT ![l] = t + 1],
              files |-> [f EXCEPT ![l] = [kind |-> "dict", dict |-> data, mtime |-> t + 1]],
              clock |-> t + 1]

\* ensure_default_key(key) while another process writes content to the
\* canonical file after the call's _load_lang and before its _write_lang;
\* ret.data is the dictionary the call holds after d[key] = key
ensure_default_key_raced(key, content) ==
    LET dlang == Lower(inst.default_language)
        r == _load_lang(_cache, _mtimes, dlang)
        f == WrittenOutside(localeFiles, dlang, content, clock + 1)
        d == [r.data EXCEPT ![key] = key]
        c == [r.cache EXCEPT ![dlang].dict = d]
        w == IF r.raised = "none" /\ r.data[key] = "<absent>"
             THEN _write_lang_to(c, r.mtimes, f, clock + 1, dlang, d, "ok")
             ELSE [raised |-> r.raised, cache |-> r.cache, mtimes |-> r.mtimes,
                   files |-> f, clock |-> clock + 1]
    IN  /\ L10nCall
        /\ dlang \in Langs
        /\ w.clock <= MaxClock
        /\ _cache' = w.cache
        /\ _mtimes' = w.mtimes
        /\ localeFiles' = w.files
        /\ clock' = w.clock
        /\ UNCHANGED _runtime_cache
        /\ ret' = [Ret("ensure_default_key_raced", w.raised, 0, FALSE, r.read, "") EXCEPT
                      !.lang = dlang, !.data = d, !.key = key, !.args = <<content>>]

\* sync_language_with_default(lang) while another process writes content to
\* the file of lang after the call's two _load_lang and before its _write_lang
sync_language_with_default_raced(lang, content) ==
    LET l == Lower(lang)
        r1 == _load_lang(_cache, _mtimes, inst.default_language)
        r2 == IF r1.raised # "none" THEN r1 ELSE _load_lang(r1.cache, r1.mtimes, l)
        f == WrittenOutside(localeFiles, l, content, clock + 1)
        tgt == SyncedDict(r1.data, r2.data)
        changed == r2.raised = "none" /\ Held(tgt) # Held(r2.data)
        c == [r2.cache EXCEPT ![l].dict = tgt]
        w == IF changed
             THEN _write_lang_to(c, r2.mtimes, f, clock + 1, l, tgt, "ok")
             ELSE [raised |-> r2.raised, cache |-> r2.cache, mtimes |-> r2.mtimes,
                   files |-> f, clock |-> clock + 1]
    IN  /\ L10nCall
        /\ l \in Langs /\ inst.default_language \in Langs
        /\ w.clock <= MaxClock
        /\ _cache' = w.cache
        /\ _mtimes' = w.mtimes
        /\ localeFiles' = w.files
        /\ clock' = w.clock
        /\ UNCHANGED _runtime_cache
        /\ ret' = [Ret("sync_language_with_default_raced", w.raised,
                       IF changed THEN 1 ELSE 0, FALSE, r2.read, "") EXCEPT
                      !.lang = l, !.data = tgt, !.args = <<content>>]

\* ensure_default_key(key) when write_text, if the call comes to it, raises
ensure_default_key_failing(key, outcome) ==
    LET dlang == Lower(inst.default_language)
        r == _load_lang(_cache, _mtimes, dlang)
        d == [r.data EXCEPT ![key] = key]
        c == [r.cache EXCEPT ![dlang].dict = d]
        w == IF r.raised = "none" /\ r.data[key] = "<absent>"
             THEN _write_lang_to(c, r.mtimes, localeFiles, clock, dlang, d, outcome)
             ELSE [raised |-> r.raised, cache |-> r.cache, mtimes |-> r.mtimes,
                   files |-> localeFiles, clock |-> clock]
    IN  /\ L10nCall
        /\ dlang \in Langs
        /\ w.clock <= MaxClock
        /\ _cache' = w.cache
        /\ _mtimes' = w.mtimes
        /\ localeFiles' = w.files
        /\ clock' = w.clock
        /\ UNCHANGED _runtime_cache
        /\ ret' = [Ret("ensure_default_key_failing", w.raised, 0, FALSE, r.read, "") EXCEPT
                      !.lang = dlang, !.data = d, !.key = key, !.args = <<outcome>>]

\* sync_language_with_default(lang) when write_text, if the call comes to it,
\* raises
sync_language_with_default_failing(lang, outcome) ==
    LET l == Lower(lang)
        r1 == _load_lang(_cache, _mtimes, inst.default_language)
        r2 == IF r1.raised # "none" THEN r1 ELSE _load_lang(r1.cache, r1.mtimes, l)
        tgt == SyncedDict(r1.data, r2.data)
        changed == r2.raised = "none" /\ Held(tgt) # Held(r2.data)
        c == [r2.cache EXCEPT ![l].dict = tgt]
        w == IF changed
             THEN _write_lang_to(c, r2.mtimes, localeFiles, clock, l, tgt, outcome)
             ELSE [raised |-> r2.raised, cache |-> r2.cache, mtimes |-> r2.mtimes,
                   files |-> localeFiles, clock |-> clock]
    IN  /\ L10nCall
        /\ l \in Langs /\ inst.default_language \in Langs
        /\ w.clock <= MaxClock
        /\ _cache' = w.cache
        /\ _mtimes' = w.mtimes
        /\ localeFiles' = w.files
        /\ clock' = w.clock
        /\ UNCHANGED _runtime_cache
        /\ ret' = [Ret("sync_language_with_default_failing", w.raised,
                       IF changed THEN 1 ELSE 0, FALSE, r2.read, "") EXCEPT
                      !.lang = l, !.data = tgt, !.args = <<outcome>>]

-----------------------------------------------------------------------------
(* The settings screen *)

\* LocalizationService.available_languages: the codes of the two-letter files
LocaleFilesPresent == {l \in Langs : localeFiles[l].kind # "missing"}

\* the option values LanguageSelect holds: refresh_options sets them from
\* available_languages, which evaluates self.settings._abs before anything else
LangSelectOptions ==
    IF "_abs" \notin SettingsAttributes THEN {}
    ELSE IF LocaleFilesPresent # {} THEN LocaleFilesPresent
    ELSE {Lower(c) : c \in {inst.ui_language, inst.fallback_language, inst.default_language}}

\* SettingsScreen.on_button_pressed for the buttons "apply" and "save", value
\* being lang_select.value and <<>> no selection
on_button_pressed(id, value) ==
    LET chosen == IF value # <<>> THEN value ELSE inst.ui_language
        s == [inst EXCEPT !.ui_language = chosen]
    IN  /\ nops < MaxOps
        /\ _instance # 0
        /\ value \in LangSelectOptions \cup {<<>>}
        /\ nops' = nops + 1
        /\ inst' = s
        /\ IF id = "save"
           THEN /\ files' = [files EXCEPT ![s.path] = Json(save_data(s))]
                /\ snap' = [path |-> s.path, rec |-> s]
           ELSE UNCHANGED <<files, snap>>
        \* _update_status
        /\ ret' = Ret("on_button_pressed",
                      IF "_abs" \notin SettingsAttributes THEN "AttributeError" ELSE "none",
                      0, FALSE, FALSE, s.path)
        /\ UNCHANGED <<catalogFile, sysLocale, dirs, themeDir, _instance, nextId, l10nVars>>

-----------------------------------------------------------------------------
(* Inputs *)

FIL == <<"f", "i", "l">>
DE == <<"d", "e">>
XX == <<"x", "x">>
CsCz == <<"c", "s", "_", "C", "Z">>

\* a settings file as save() leaves it
GoodTree == [defaults EXCEPT !.first_run = JBool(FALSE), !.ui_language = JStr(CS)]

EnabledP1 == Sec("obj", [p \in PluginNames |-> "on"])

ConstructTrees ==
    {GoodTree, [GoodTree EXCEPT !.top = "list"]}
    \cup {[GoodTree EXCEPT !.app = a] : a \in {"absent", "null", "list"}}
    \cup {[GoodTree EXCEPT !.schema_version = v] :
            v \in {JStr(<<"a">>), JStr(<<"3">>), JNull, JAbsent}}
    \cup {[GoodTree EXCEPT !.locales_path = JInt(5)],
          [GoodTree EXCEPT !.jsons_path = JNull],
          [GoodTree EXCEPT !.languages_path = JInt(5)],
          [GoodTree EXCEPT !.languages_path = JStr(Tok("other.json"))],
          [GoodTree EXCEPT !.countries_path = JList(0)],
          [GoodTree EXCEPT !.theme = JNull]}
    \cup {[GoodTree EXCEPT !.i18n = a] : a \in {"absent", "null", "list"}}
    \cup {[GoodTree EXCEPT !.ui_language = v] :
            v \in {JStr(<<>>), JStr(CsCz), JStr(DE), JStr(FIL), JStr(<<"C", "S">>),
                   JInt(5), JInt(0), JAbsent}}
    \cup {[GoodTree EXCEPT !.fallback_language = v] :
            v \in {JStr(<<"c", "s", "-", "C", "Z">>), JStr(XX), JInt(5), JNull}}
    \cup {[GoodTree EXCEPT !.default_language = v] :
            v \in {JStr(<<"_", "C", "Z">>), JStr(CS), JList(1)}}
    \cup {[GoodTree EXCEPT !.backends = v] :
            v \in {Sec("null", NoEntries), Sec("list", NoEntries), Sec("absent", NoEntries),
                   EnabledP1, Sec("obj", [p \in PluginNames |-> "nondict"])}}
    \cup {[GoodTree EXCEPT !.translators = Sec("list", NoEntries)],
          [GoodTree EXCEPT !.middleware = Sec("null", NoEntries)],
          [GoodTree EXCEPT !.communication = Sec("list", NoEntries)],
          [GoodTree EXCEPT !.communication = EnabledP1],
          [GoodTree EXCEPT !.auth = Sec("list", NoEntries)],
          [GoodTree EXCEPT !.auth = EnabledP1]}
    \cup {[GoodTree EXCEPT !.first_run = v] : v \in {JAbsent, JBool(TRUE), JStr(<<"x">>)}}

ConstructFiles == {Missing, Empty, Blank, Garbage} \cup {Json(t) : t \in ConstructTrees}

Catalogs ==
    {NoCatalog,
     [kind |-> "garbage", rows |-> <<>>],
     [kind |-> "notlist", rows |-> <<>>],
     [kind |-> "list", rows |-> <<>>],
     [kind |-> "list", rows |-> <<Row(JStr(CS))>>],
     [kind |-> "list", rows |-> <<Row(JStr(EN)), Row(JStr(CsCz))>>],
     [kind |-> "list", rows |-> <<Row(JStr(EN)), Row(JStr(FIL))>>],
     [kind |-> "list", rows |-> <<Row(JStr(CS)), BadRow>>],
     [kind |-> "list", rows |-> <<Row(JAbsent)>>]}

SysLocales == {<<>>, CsCz, <<"C">>, <<"f", "i", "l", "_", "P", "H">>, <<"d", "e", "_", "D", "E">>}

ConfigDirs == {Tok("jsons"), Tok("locales")}

LangArgs == {XX, <<"C", "S", "_", "C", "Z">>}
ThemeArgs == {Tok("dark")}
CategoryArgs == {"backends", "auth"}

\* the values the settings file carries under "_first_run"
FirstRunMarkers == {JAbsent, JBool(TRUE), JBool(FALSE), JInt(1), JNull}

AllSections == {"auth", "backends", "translators", "middleware", "communication"}

\* which sections of the file hold a plugin entry
ConfiguredSections == {{}, AllSections} \cup {{c} : c \in AllSections}

PluginTree(fr, S) ==
    [GoodTree EXCEPT !.first_run = fr,
                     !.auth = IF "auth" \in S THEN EnabledP1 ELSE EmptySec,
                     !.backends = IF "backends" \in S THEN EnabledP1 ELSE EmptySec,
                     !.translators = IF "translators" \in S THEN EnabledP1 ELSE EmptySec,
                     !.middleware = IF "middleware" \in S THEN EnabledP1 ELSE EmptySec,
                     !.communication = IF "communication" \in S THEN EnabledP1 ELSE EmptySec]

PluginFiles ==
    {Missing, Garbage}
    \cup {Json(PluginTree(fr, S)) : fr \in FirstRunMarkers, S \in ConfiguredSections}
    \cup {Json([PluginTree(JAbsent, {}) EXCEPT !.translators = Sec("obj", [p \in PluginNames |-> v])]) :
            v \in {"nondict", "empty", "off"}}

Canonical == [k \in Keys |-> k]

LocaleContents ==
    {NoLocaleFile,
     [kind |-> "garbage", dict |-> NoDict, mtime |-> 0],
     [kind |-> "nonobject", dict |-> NoDict, mtime |-> 0],
     [kind |-> "dict", dict |-> NoDict, mtime |-> 0],
     [kind |-> "dict", dict |-> Canonical, mtime |-> 0],
     [kind |-> "dict", dict |-> [Canonical EXCEPT !["bye"] = "<absent>", !["hello"] = "ahoj"],
      mtime |-> 0],
     [kind |-> "dict", dict |-> [Canonical EXCEPT !["hello"] = "<absent>", !["bye"] = ""],
      mtime |-> 0]}

LookupLangs == Langs \cup {<<"C", "S">>}

Texts == {Tok("hello")}
SrcArgs == {<<>>, EN, <<"E", "N">>}
DestArgs == {<<>>, CS, EN}

Translators ==
    {NoTranslator, TranslatorRaises, JStr(<<>>), JStr(<<" ">>), JInt(5),
     JStr(Tok("ahoj")), JStr(<<" ", "ahoj">>)}

DK == <<"d", "k">>
NOPE == Tok("nope")

\* the entries a theme directory may hold
ThemeEntries ==
    {[name |-> AS400 \o TCSS, isfile |-> TRUE],
     [name |-> AS400 \o CUSTOM \o TCSS, isfile |-> TRUE],
     [name |-> DK \o TCSS, isfile |-> TRUE],
     [name |-> <<"D", "k">> \o TCSS, isfile |-> TRUE],
     [name |-> DK \o CUSTOM \o TCSS, isfile |-> TRUE],
     [name |-> <<"notes", ".", "t", "x", "t">>, isfile |-> TRUE],
     [name |-> <<"x">> \o TCSS, isfile |-> FALSE]}

\* a file system that ignores case holds no two names that differ only in case
ThemeDirs ==
    {NoThemeDir, [kind |-> "file", entries |-> {}, fold |-> FALSE]}
    \cup {d \in [kind : {"dir"}, entries : SUBSET ThemeEntries, fold : BOOLEAN] :
            /\ Cardinality(d.entries) <= MaxEntries
            /\ d.fold => \A e1, e2 \in d.entries :
                             Lower(e1.name) = Lower(e2.name) => e1 = e2}

ThemeNames == {<<>>, DK, <<"D", "k">>, NOPE, <<"x">>}

-----------------------------------------------------------------------------
(* Construction from every shape of input *)

ProcessStart ==
    /\ _instance = 0
    /\ inst = NoInst
    /\ nextId = 1
    /\ ret = StartRet
    /\ snap = NoSnap
    /\ nops = 0

InitConstruct ==
    /\ files \in {[p \in Paths |-> IF p = "settings.json" THEN f ELSE Missing] :
                    f \in ConstructFiles}
    /\ catalogFile \in Catalogs
    /\ sysLocale \in SysLocales
    /\ dirs \in {{}, ConfigDirs}
    /\ themeDir = NoThemeDir
    /\ ProcessStart
    /\ L10nIdle

NextConstruct ==
    \/ \E p \in Paths : load(p)
    \/ Restart

SpecConstruct == InitConstruct /\ [][NextConstruct]_vars

-----------------------------------------------------------------------------
(* The life of the record: load, setters, save, restart *)

LifeFiles == {Missing, Garbage, Json(GoodTree)}

LifeCatalogs ==
    {NoCatalog,
     [kind |-> "notlist", rows |-> <<>>],
     [kind |-> "list", rows |-> <<Row(JStr(EN)), Row(JStr(CsCz))>>]}

Init ==
    /\ files \in {[p \in Paths |-> IF p = "settings.json" THEN f ELSE Missing] :
                    f \in LifeFiles}
    /\ catalogFile \in LifeCatalogs
    /\ sysLocale \in {<<>>, CsCz}
    /\ dirs = {Tok("jsons")}
    /\ themeDir = NoThemeDir
    /\ ProcessStart
    /\ L10nIdle

Next ==
    \/ \E p \in Paths : load(p)
    \/ save
    \/ \E lang \in LangArgs : set_language(lang)
    \/ \E name \in ThemeArgs : switch_theme(name)
    \/ \E c \in CategoryArgs, n \in PluginNames, e \in BOOLEAN : set_plugin_enabled(c, n, e)
    \/ \E id \in {"apply", "save"}, value \in Langs \cup {<<>>} : on_button_pressed(id, value)
    \/ Restart

Spec == Init /\ [][Next]_vars

-----------------------------------------------------------------------------
(* The first-run marker and the plugin sections *)

InitPlugins ==
    /\ files \in {[p \in Paths |-> IF p = "settings.json" THEN f ELSE Missing] :
                    f \in PluginFiles}
    /\ catalogFile = [kind |-> "list", rows |-> <<Row(JStr(EN)), Row(JStr(CsCz))>>]
    /\ sysLocale = <<>>
    /\ dirs = {Tok("jsons")}
    /\ themeDir = NoThemeDir
    /\ ProcessStart
    /\ L10nIdle

NextPlugins ==
    \/ load("settings.json")
    \/ save
    \/ \E c \in PluginCategories \cup {"auth"}, n \in PluginNames, e \in BOOLEAN :
          set_plugin_enabled(c, n, e)
    \/ \E c \in PluginCategories \cup {"auth"}, n \in PluginNames : plugin_enabled(c, n)
    \/ Restart

SpecPlugins == InitPlugins /\ [][NextPlugins]_vars

-----------------------------------------------------------------------------
(* The localization service and the files it reads *)

InitL10n ==
    /\ files \in {[p \in Paths |-> IF p = "settings.json" THEN f ELSE Missing] :
                    f \in {Missing, Json([GoodTree EXCEPT !.default_language = JStr(CS)])}}
    /\ catalogFile = NoCatalog
    /\ sysLocale = CsCz
    /\ dirs = ConfigDirs
    /\ themeDir = NoThemeDir
    /\ ProcessStart
    /\ localeFiles \in [Langs -> {NoLocaleFile,
                                  [kind |-> "dict", dict |-> Canonical, mtime |-> 0],
                                  [kind |-> "garbage", dict |-> NoDict, mtime |-> 0]}]
    /\ clock = 0
    /\ L10nFresh

NextL10n ==
    \/ load("settings.json")
    \/ \E text \in Texts, dest \in Langs, tr \in {NoTranslator, JStr(Tok("ahoj"))} :
          translate_runtime(text, <<>>, dest, tr)
    \/ \E k \in Keys, lang \in LookupLangs \cup {<<>>} : get(k, lang)
    \/ \E k \in Keys : ensure_default_key(k)
    \/ \E lang \in LookupLangs : sync_language_with_default(lang)
    \/ \E lang \in LookupLangs : compute_diff_with_default(lang)
    \/ \E lang \in LookupLangs \cup {<<>>} : refresh_language_cache(lang)
    \/ \E lang \in Langs, content \in LocaleContents : ExternalWrite(lang, content)

SpecL10n == InitL10n /\ [][NextL10n]_vars

-----------------------------------------------------------------------------
(* The writers of the locale files: this process, other processes, failing
   writes *)

NextWriters ==
    \/ load("settings.json")
    \/ \E k \in Keys, lang \in Langs : get(k, lang)
    \/ \E k \in Keys, content \in LocaleContents : ensure_default_key_raced(k, content)
    \/ \E lang \in Langs, content \in LocaleContents :
          sync_language_with_default_raced(lang, content)
    \/ \E k \in Keys, o \in WriteOutcomes \ {"ok"} : ensure_default_key_failing(k, o)
    \/ \E lang \in Langs, o \in WriteOutcomes \ {"ok"} :
          sync_language_with_default_failing(lang, o)
    \/ \E lang \in Langs, content \in LocaleContents : ExternalWrite(lang, content)

SpecWriters == InitL10n /\ [][NextWriters]_vars

-----------------------------------------------------------------------------
(* The theme directory and the queries on it *)

ThemeFiles ==
    {Missing, Json(GoodTree),
     Json([GoodTree EXCEPT !.theme = JStr(<<"D", "k">>)]),
     Json([GoodTree EXCEPT !.theme = JNull]),
     Json([GoodTree EXCEPT !.theme = JInt(5)]),
     Json([GoodTree EXCEPT !.themes_path = JInt(5)])}

InitThemes ==
    /\ files \in {[p \in Paths |-> IF p = "settings.json" THEN f ELSE Missing] :
                    f \in ThemeFiles}
    /\ catalogFile = NoCatalog
    /\ sysLocale = <<>>
    /\ dirs = ConfigDirs
    /\ themeDir \in ThemeDirs
    /\ ProcessStart
    /\ L10nIdle

NextThemes ==
    \/ load("settings.json")
    \/ \E name \in ThemeArgs : switch_theme(name)
    \/ \E name \in ThemeNames : resolve_theme_files(name)
    \/ available_themes

SpecThemes == InitThemes /\ [][NextThemes]_vars

-----------------------------------------------------------------------------
(* Runtime translation *)

InitRuntime ==
    /\ files \in {[p \in Paths |-> IF p = "settings.json" THEN f ELSE Missing] :
                    f \in {Missing, Json([GoodTree EXCEPT !.default_language = JStr(CS)])}}
    /\ catalogFile = NoCatalog
    /\ sysLocale = CsCz
    /\ dirs = ConfigDirs
    /\ themeDir = NoThemeDir
    /\ ProcessStart
    /\ L10nIdle

NextRuntime ==
    \/ load("settings.json")
    \/ \E lang \in LangArgs \cup {EN} : set_language(lang)
    \/ \E text \in Texts, src \in SrcArgs, dest \in DestArgs, tr \in Translators :
          translate_runtime(text, src, dest, tr)
    \/ \E lang \in {<<>>, CS} : refresh_language_cache(lang)

SpecRuntime == InitRuntime /\ [][NextRuntime]_vars

-----------------------------------------------------------------------------
(* Claims about construction and loading *)

LanguageFields(s) == {s.ui_language, s.fallback_language, s.default_language}

\* a load that has just built the singleton from the file at ret.path
Constructed == ret.op = "load" /\ ret.fresh /\ _instance # 0

LoadedFile == files[ret.path]

\* C1: when construction completes, ui_language, fallback_language and
\* default_language are each non-empty and each a code for which the
\* instance's LanguageCatalog.exists() is true, whatever the catalog file holds.
C1_LanguagesInCatalog ==
    Constructed =>
        \A code \in LanguageFields(inst) : code # <<>> /\ LanguageCatalog_exists(inst.languages, code)

IsLowerLetter(c) == c \in {"a", "c", "d", "e", "f", "i", "l", "n", "r", "s", "x", "z"}

\* C2: for an input with no i18n section, whatever the system language
\* detection returns, ui_language after construction is a two-letter lowercase
\* code present in the LanguageCatalog.
C2_UiLanguageTwoLetterInCatalog ==
    (Constructed /\ LoadedFile.kind = "json" /\ LoadedFile.tree.i18n = "absent") =>
        /\ Len(inst.ui_language) = 2
        /\ \A i \in 1..Len(inst.ui_language) : IsLowerLetter(inst.ui_language[i])
        /\ LanguageCatalog_exists(inst.languages, inst.ui_language)

ParseWarnings(s) == SelectSeq(s.warnings, LAMBDA w : w.kind = "parse")
OtherWarnings(s) == SelectSeq(s.warnings, LAMBDA w : w.kind # "parse")

\* the instance is the one built from the built-in default tree
BuiltFromDefaults ==
    LET d == Settings_init(defaults, ret.path).s
    IN  /\ is_first_run(inst)
        /\ inst.first_run = "true"
        /\ [inst EXCEPT !.warnings = <<>>] = [d EXCEPT !.warnings = <<>>]
        /\ OtherWarnings(inst) = d.warnings

\* C4 as amended: with no singleton, a missing file, an empty or whitespace-only
\* file and a file that fails to parse all yield the instance built from the
\* built-in default tree with is_first_run true and the same construction
\* warnings; the missing file records nothing more, and both the empty file and
\* the parse failure record exactly one more warning, the last one, naming the
\* exception.
C4_DefaultsOnUnreadableFile ==
    (Constructed /\ LoadedFile.kind # "json") =>
        /\ BuiltFromDefaults
        /\ Len(ParseWarnings(inst)) = IF LoadedFile.kind = "missing" THEN 0 ELSE 1
        /\ LoadedFile.kind # "missing" =>
              /\ inst.warnings[Len(inst.warnings)].kind = "parse"
              /\ inst.warnings[Len(inst.warnings)].ex # ""

C4_Witness ==
    /\ Constructed
    /\ LoadedFile.kind = "empty"
    /\ Len(ParseWarnings(inst)) = 1
    /\ ParseWarnings(inst)[1].ex = "ValueError"

\* C4 as stated: only the parse failure records the additional warning, so a
\* missing file and an empty or whitespace-only file record none.
C4_OnlyParseFailureWarns ==
    (Constructed /\ LoadedFile.kind # "json") =>
        /\ BuiltFromDefaults
        /\ Len(ParseWarnings(inst)) = IF LoadedFile.kind = "garbage" THEN 1 ELSE 0

\* C5: construction, and therefore load of a file that parses as JSON, never
\* raises, whatever the shape of the parsed input.
C5_ConstructionNeverRaises ==
    ret.op = "load" => ret.raised = "none"

Malformed(t) == t \notin {"obj", "absent"}

MalformedSections(tree) ==
    {sec \in {"backends", "translators", "middleware", "communication", "auth"} :
        Malformed(tree[sec].t)}
    \cup {sec \in {"app", "i18n"} : Malformed(tree[sec])}

\* C6: whenever construction coerces a section given as a non-object value to
\* its empty default, the warnings list holds a warning about that section.
C6_CoercionIsWarned ==
    (Constructed /\ LoadedFile.kind = "json") =>
        \A sec \in MalformedSections(LoadedFile.tree) :
            \E i \in 1..Len(inst.warnings) :
                inst.warnings[i].kind = "section" /\ inst.warnings[i].code = <<sec>>

-----------------------------------------------------------------------------
(* Claims about the life of the record *)

\* a step that is a call of op
Calls(op) == ret'.op = op /\ nops' = nops + 1

\* C3: once a load has returned the singleton, every later load, for any path,
\* returns that same instance, reads no file and changes no field, warning or
\* error of it.
C3_LoadReturnsSingleton ==
    [][(_instance # 0 /\ Calls("load")) =>
          /\ ret'.val = _instance
          /\ ret'.raised = "none"
          /\ ~ret'.read
          /\ _instance' = _instance
          /\ inst' = inst
          /\ files' = files]_vars

C3_Witness ==
    /\ ret.op = "load"
    /\ _instance # 0
    /\ ~ret.fresh
    /\ ret.path # inst.path
    /\ files[ret.path].kind = "missing"
    /\ files[inst.path].kind = "json"

RoundTripFields ==
    {"ui_language", "fallback_language", "default_language", "theme",
     "backends", "translators", "middleware", "communication"}

\* C7: save() followed by load() of the same path on a fresh singleton yields
\* an instance with the same ui_language, fallback_language, default_language,
\* theme and plugin sections as the saved record.
C7_SaveLoadRoundTrip ==
    (ret.op = "load" /\ ret.fresh /\ snap.path = ret.path) =>
        /\ ret.raised = "none"
        /\ \A f \in RoundTripFields : inst[f] = snap.rec[f]

\* C8: two consecutive save() calls with no mutation of the record in between
\* leave the settings file with exactly the content one save() call leaves.
C8_SaveIdempotent ==
    [][(ret.op = "save" /\ Calls("save")) => files' = files]_vars

C8_Witness ==
    /\ ret.op = "save"
    /\ ret.rep
    /\ files[inst.path] = Json(save_data(inst))
    /\ inst.ui_language = XX

-----------------------------------------------------------------------------
(* Claims about the localization service *)

L10nOps == {"get", "compute_diff_with_default", "sync_language_with_default",
            "ensure_default_key"}

\* C9: a lookup of a language dictionary returns the cached dictionary without
\* reading when the language has a cache entry whose recorded mtime equals the
\* file's current mtime, and otherwise reads the file and returns, and caches
\* with the current mtime, the dictionary parsed from it.
C9_LookupRereadsOnMtimeChange ==
    [][Calls("get") =>
          LET l == ret'.lang
          IN  /\ ret'.raised = "none"
              /\ IF _cache[l].cached /\ _mtimes[l] = _file_mtime(localeFiles[l])
                 THEN ret'.data = _cache[l].dict /\ ~ret'.read
                 ELSE /\ ret'.data = ParseLocale(localeFiles[l])
                      /\ _cache'[l] = [cached |-> TRUE, dict |-> ParseLocale(localeFiles[l])]
                      /\ _mtimes'[l] = _file_mtime(localeFiles[l])]_vars

\* C10: get, compute_diff_with_default, sync_language_with_default and
\* ensure_default_key on a service built from a Settings instance complete
\* without an exception, also when the language file is missing, unparseable
\* or not an object, and the dictionary they load is then empty.
C10_LoadNeverRaises ==
    ret.op \in L10nOps => ret.raised = "none"

\* the dictionary the service holds for a language: the cached one while its
\* recorded mtime is the file's, the one parsed from the file otherwise
DictionaryOf(c, m, f, l) ==
    IF c[l].cached /\ m[l] = _file_mtime(f[l]) THEN c[l].dict ELSE ParseLocale(f[l])

Dictionary(l) == DictionaryOf(_cache, _mtimes, localeFiles, l)
DictionaryAfter(l) == DictionaryOf(_cache', _mtimes', localeFiles', l)

DefaultLang == Lower(inst.default_language)

\* C11: get(key, lang) with no substitution map returns the value of key in
\* the requested language (the ui_language when lang is omitted) if it is
\* present and non-empty, otherwise the value of key in the default language if
\* present and non-empty, otherwise the key itself.
C11_GetFallbackOrder ==
    [][Calls("get") =>
          LET v == Dictionary(ret'.lang)[ret'.key]
              dv == Dictionary(DefaultLang)[ret'.key]
          IN  /\ ret'.raised = "none"
              /\ ret'.out = IF Translated(v) THEN v
                            ELSE IF Translated(dv) THEN dv
                            ELSE ret'.key]_vars

\* C12: after sync_language_with_default(lang) the key set of lang's dictionary,
\* in cache and on disk, is the canonical key set: keys only in canonical are
\* added with value "" and keys in both keep their value.
C12_SyncMakesKeySetsEqual ==
    [][Calls("sync_language_with_default") =>
          LET l == ret'.lang
              src == Dictionary(DefaultLang)
              tgt == Dictionary(l)
          IN  /\ ret'.raised = "none"
              /\ _cache'[l].cached
              /\ Held(_cache'[l].dict) = Held(src)
              /\ Held(ParseLocale(localeFiles'[l])) = Held(src)
              /\ \A k \in Held(src) :
                    _cache'[l].dict[k] = IF k \in Held(tgt) THEN tgt[k] ELSE ""]_vars

\* C13: sync_language_with_default(lang) writes lang's file and returns True
\* if and only if it removed or added a key; otherwise it returns False and
\* leaves the files, the dictionary of lang and the canonical one unchanged.
C13_SyncWritesIffChanged ==
    [][Calls("sync_language_with_default") =>
          LET l == ret'.lang
              changed == Held(Dictionary(l)) # Held(Dictionary(DefaultLang))
          IN  /\ ret'.raised = "none"
              /\ (ret'.val = 1) = changed
              /\ (localeFiles'[l] # localeFiles[l]) = changed
              /\ ~changed =>
                    /\ localeFiles' = localeFiles
                    /\ DictionaryAfter(l) = Dictionary(l)
                    /\ DictionaryAfter(DefaultLang) = Dictionary(DefaultLang)]_vars

\* C14: a second sync_language_with_default(lang) right after a first one
\* returns False and changes nothing.
C14_SyncIdempotent ==
    [][(/\ ret.op = "sync_language_with_default"
        /\ Calls("sync_language_with_default")
        /\ ret'.lang = ret.lang) =>
          /\ ret'.raised = "none"
          /\ ret'.val = 0
          /\ UNCHANGED <<localeFiles, _cache, _mtimes>>]_vars

\* C15: compute_diff_with_default(lang) returns (canonical keys minus lang
\* keys, lang keys minus canonical keys) and changes no dictionary and no file,
\* so that a repeated call returns the same.
C15_DiffIsReadOnly ==
    [][Calls("compute_diff_with_default") =>
          LET src == Held(Dictionary(DefaultLang))
              tgt == Held(Dictionary(ret'.lang))
          IN  /\ ret'.raised = "none"
              /\ ret'.diff = <<src \ tgt, tgt \ src>>
              /\ localeFiles' = localeFiles
              /\ \A l \in Langs : DictionaryAfter(l) = Dictionary(l)]_vars

\* C16: ensure_default_key(key) adds key mapped to key to the canonical
\* dictionary and persists it when key is absent, and writes nothing and leaves
\* dictionary and file unchanged when key is present with any value.
C16_EnsureDefaultKeyConservative ==
    [][Calls("ensure_default_key") =>
          LET k == ret'.key
              d == Dictionary(DefaultLang)
          IN  /\ ret'.raised = "none"
              /\ IF d[k] = "<absent>"
                 THEN /\ DictionaryAfter(DefaultLang) = [d EXCEPT ![k] = k]
                      /\ ParseLocale(localeFiles'[DefaultLang]) = [d EXCEPT ![k] = k]
                 ELSE /\ localeFiles' = localeFiles
                      /\ DictionaryAfter(DefaultLang) = d]_vars

NotCached == [cached |-> FALSE, dict |-> NoDict]

\* C17: refresh_language_cache(lang) removes the cache entry and recorded
\* mtime of that language only (of every language when lang is omitted) and
\* leaves the runtime translation cache and the files unchanged; the next
\* lookup of an evicted language re-reads the file.
C17_RefreshEvictsExactly ==
    [][/\ Calls("refresh_language_cache") =>
            /\ \A l \in Langs :
                  IF ret'.lang \in {<<>>, l}
                  THEN _cache'[l] = NotCached /\ _mtimes'[l] = -2
                  ELSE _cache'[l] = _cache[l] /\ _mtimes'[l] = _mtimes[l]
            /\ UNCHANGED <<_runtime_cache, localeFiles>>
       /\ (/\ ret.op = "refresh_language_cache"
           /\ Calls("get")
           /\ ret.lang \in {<<>>, ret'.lang}) =>
            /\ ret'.raised = "none"
            /\ ret'.data = ParseLocale(localeFiles[ret'.lang])
            /\ ret'.read = (localeFiles[ret'.lang].kind # "missing")]_vars

-----------------------------------------------------------------------------
(* Claims about runtime translation *)

\* C18: when translate_runtime(text, src, dest, translator) has src different
\* from dest and invokes the translator, it raises nothing; if the translator
\* raises or returns an empty, whitespace-only or non-string result, the call
\* returns text unchanged, and a result that is a string with a character
\* other than whitespace is returned and cached under (text, src, dest).
C18_TranslatorFailureSwallowed ==
    [][Calls("translate_runtime") =>
          LET text == ret'.args[1]
              src_lang == ret'.args[2]
              dest_lang == ret'.args[3]
              tr == ret'.args[4]
              src == Lower(IF src_lang # <<>> THEN src_lang ELSE inst.default_language)
              dest == Lower(IF dest_lang # <<>> THEN dest_lang ELSE inst.ui_language)
              key == <<text, src, dest>>
          IN  (src # dest /\ key \notin DOMAIN _runtime_cache /\ tr # NoTranslator) =>
                 /\ ret'.raised = "none"
                 /\ ret'.invoked
                 /\ IF tr.t = "str" /\ \E i \in 1..Len(tr.s) : tr.s[i] # " "
                    THEN /\ ret'.text = tr.s
                         /\ key \in DOMAIN _runtime_cache'
                         /\ _runtime_cache'[key] = tr.s
                    ELSE ret'.text = text /\ _runtime_cache'[key] = text]_vars

\* a translator was invoked and failed: the text came back and was cached
C18_Witness ==
    /\ ret.op = "translate_runtime"
    /\ ret.invoked
    /\ ret.args[4] = TranslatorRaises
    /\ ret.text = ret.args[1]
    /\ \E k \in DOMAIN _runtime_cache : k[2] # k[3] /\ _runtime_cache[k] = ret.args[1]

-----------------------------------------------------------------------------
(* Claims about themes *)

\* the name resolve_theme_files looks for: the argument, else the record's
\* theme, else as400, in lower case
WantedTheme(name) ==
    Lower(IF name # <<>> THEN name
          ELSE IF Truthy(inst.theme) THEN inst.theme.s ELSE AS400)

\* C19: resolve_theme_files(name) always returns a list that starts with the
\* base stylesheet path, followed by the path of the first existing candidate
\* among name.custom, name, as400.custom and as400, and by nothing when none
\* of the four exists.
C19_ResolveOrder ==
    [][Calls("resolve_theme_files") =>
          LET n == WantedTheme(ret'.text)
              candidates == <<n \o CUSTOM \o TCSS, n \o TCSS,
                              AS400 \o CUSTOM \o TCSS, AS400 \o TCSS>>
              existing == {i \in 1..4 : ThemeFileExists(candidates[i])}
              first == CHOOSE i \in existing : \A j \in existing : i <= j
          IN  /\ ret'.raised = "none"
              /\ ret'.list = IF existing = {} THEN <<base_css>>
                             ELSE <<base_css, ThemePath(inst, candidates[first])>>]_vars

\* the files of the theme directory that match <name>[.custom].tcss
MatchingThemeFiles ==
    {e \in themeDir.entries : e.isfile /\ _THEME_FILE_RE(e.name).match}

\* C20: available_themes() returns one ThemeInfo per distinct logical name
\* among the files of the theme directory that match <name>[.custom].tcss, in
\* ascending order of name, the custom one whenever a name has a custom file.
C20_OneThemePerName ==
    [][Calls("available_themes") =>
          LET l == ret'.list
              infos == {ThemeInfo(inst, e.name) : e \in MatchingThemeFiles}
          IN  /\ ret'.raised = "none"
              /\ {l[i].name : i \in 1..Len(l)} = {t.name : t \in infos}
              /\ \A i \in 1..Len(l) :
                    /\ l[i] \in infos
                    /\ (\E t \in infos : t.name = l[i].name /\ t.kind = "custom")
                          => l[i].kind = "custom"
              /\ \A i \in 1..(Len(l) - 1) : StrLess(l[i].name, l[i + 1].name)]_vars

-----------------------------------------------------------------------------
(* Claims about the first-run marker and the language setters *)

\* the tree the singleton was built from, in a state where Constructed holds
InputTree == IF LoadedFile.kind = "json" THEN LoadedFile.tree ELSE defaults

InferenceSections == {"auth", "backends", "translators", "middleware"}

NoneConfigured(s) ==
    \A c \in InferenceSections :
        s[c].t = "obj" /\ \A p \in PluginNames : s[c].m[p] = "absent"

\* C21: is_first_run equals the _first_run marker of the input when that
\* marker is a boolean, whatever the sections hold and for the whole life of
\* the instance; when the marker is absent or not a boolean, is_first_run is
\* true exactly when auth, backends, translators and middleware are all empty
\* in the current state (communication is not consulted).
C21_FirstRunMarkerOrInference ==
    /\ [](Constructed =>
            IF InputTree.first_run.t = "bool"
            THEN /\ inst.first_run # "none"
                 /\ is_first_run(inst) = (InputTree.first_run.n = 1)
            ELSE inst.first_run = "none")
    /\ []((_instance # 0 /\ inst.first_run = "none") =>
            is_first_run(inst) = NoneConfigured(inst))
    /\ [][(_instance # 0 /\ _instance' = _instance) =>
            /\ inst'.first_run = inst.first_run
            /\ inst.first_run # "none" => is_first_run(inst') = is_first_run(inst)]_vars

\* an instance built without a marker still counts as a first run after a
\* communication plugin was enabled
C21_Witness ==
    /\ _instance # 0
    /\ inst.first_run = "none"
    /\ ret.op = "set_plugin_enabled"
    /\ ret.category = "communication"
    /\ ret.raised = "none"
    /\ inst.communication.m["p1"] = "on"
    /\ is_first_run(inst)

LanguageInvariant(s) ==
    /\ s.ui_language # <<>>
    /\ LanguageCatalog_exists(s.languages, s.ui_language)

\* C22: a set_language call or an Apply/Save of the settings screen that
\* starts with ui_language non-empty and present in the instance's
\* LanguageCatalog ends with ui_language non-empty and present in it.
C22_SettersKeepUiLanguageValid ==
    [][((Calls("set_language") \/ Calls("on_button_pressed"))
        /\ LanguageInvariant(inst)) => LanguageInvariant(inst')]_vars

-----------------------------------------------------------------------------
(* Claims about the writers of the locale files and the cache *)

\* an ensure_default_key or sync_language_with_default step, named op, that
\* has something to write: the key is not in the canonical dictionary, or the
\* key sets of the language and of the canonical dictionary differ
WritingCall(op) ==
    \/ /\ Calls("ensure_default_key" \o op)
       /\ Dictionary(ret'.lang)[ret'.key] = "<absent>"
    \/ /\ Calls("sync_language_with_default" \o op)
       /\ Held(Dictionary(ret'.lang)) # Held(Dictionary(DefaultLang))

\* C23: writers are not coordinated across processes: when another process
\* writes a locale file after this process's last modification-time check and
\* before its own write in ensure_default_key or sync_language_with_default,
\* the call returns without an exception, the file holds what the call wrote
\* and the other process's content is gone, undetected.
C23_RacingWriteIsLost ==
    [][WritingCall("_raced") =>
          /\ ret'.raised = "none"
          /\ localeFiles'[ret'.lang].kind = "dict"
          /\ localeFiles'[ret'.lang].dict = ret'.data
          /\ DictionaryAfter(ret'.lang) = ret'.data]_vars

\* C24: a compute_diff_with_default(lang) that follows a
\* sync_language_with_default(lang) at once returns two empty sets, whatever
\* the canonical and the target dictionary were.
C24_DiffEmptyAfterSync ==
    [][(/\ ret.op = "sync_language_with_default"
        /\ Calls("compute_diff_with_default")
        /\ ret'.lang = ret.lang) =>
          /\ ret.raised = "none"
          /\ ret'.raised = "none"
          /\ ret'.diff = <<{}, {}>>]_vars

\* the cache entry of l, if there is one, holds the dictionary parsed from the
\* file of l and the mtime of that file
Coherent(c, m, f, l) ==
    c[l].cached => (c[l].dict = ParseLocale(f[l]) /\ m[l] = _file_mtime(f[l]))

-----------------------------------------------------------------------------
(* Claims about the runtime translation cache *)

\* C27: entries of the runtime translation cache are write-once: no step, a
\* refresh_language_cache included, removes or changes an entry; a
\* translate_runtime call with src different from dest leaves the string it
\* returns under (text, src, dest); and a call that finds an entry returns it
\* without invoking the translator, also when the entry was made without a
\* translator or with a failing one and the call brings a working one.
C27_RuntimeCacheWriteOnce ==
    [][/\ \A k \in DOMAIN _runtime_cache :
             k \in DOMAIN _runtime_cache' /\ _runtime_cache'[k] = _runtime_cache[k]
       /\ Calls("translate_runtime") =>
             LET text == ret'.args[1]
                 src == Lower(IF ret'.args[2] # <<>> THEN ret'.args[2]
                              ELSE inst.default_language)
                 dest == Lower(IF ret'.args[3] # <<>> THEN ret'.args[3]
                               ELSE inst.ui_language)
                 key == <<text, src, dest>>
             IN  src # dest =>
                   /\ ret'.raised = "none"
                   /\ key \in DOMAIN _runtime_cache'
                   /\ _runtime_cache'[key] = ret'.text
                   /\ key \in DOMAIN _runtime_cache =>
                         (ret'.text = _runtime_cache[key] /\ ~ret'.invoked)]_vars

\* a call that brings a working translator gets the text back untranslated
\* from the entry an earlier call left
C27_Witness ==
    /\ ret.op = "translate_runtime"
    /\ ret.args[4] = JStr(Tok("ahoj"))
    /\ ~ret.invoked
    /\ ret.text = ret.args[1]
    /\ \E k \in DOMAIN _runtime_cache :
          k[1] = ret.args[1] /\ k[2] # k[3] /\ _runtime_cache[k] = ret.text

-----------------------------------------------------------------------------
(* Claims about the plugin queries and save *)

\* C28: plugin_enabled(category, name) is a pure query: for a valid category
\* it leaves the record, and so is_first_run and what save() writes, as they
\* were, also when name has no entry; for an unknown category it raises
\* ValueError and changes nothing; and right after
\* set_plugin_enabled(category, name, e) it returns e.
C28_PluginEnabledIsPureQuery ==
    [][Calls("plugin_enabled") =>
          /\ inst' = inst
          /\ is_first_run(inst') = is_first_run(inst)
          /\ save_data(inst') = save_data(inst)
          /\ files' = files
          /\ ret'.raised = IF ret'.category \in PluginCategories THEN "none"
                           ELSE "ValueError"
          /\ (/\ ret.op = "set_plugin_enabled"
              /\ ret.raised = "none"
              /\ ret.category = ret'.category
              /\ ret.name = ret'.name) => ret'.enabled = ret.enabled]_vars

\* C29: save() changes only the settings file: the record in memory, its
\* first-run marker, warnings and errors included, is the same before and
\* after, so is_first_run and should_open_settings() return what they
\* returned before, and the file written carries _first_run false.
C29_SaveChangesOnlyTheFile ==
    [][Calls("save") =>
          /\ ret'.raised = "none"
          /\ inst' = inst
          /\ _instance' = _instance
          /\ is_first_run(inst') = is_first_run(inst)
          /\ should_open_settings(inst') = should_open_settings(inst)
          /\ files'[inst.path].kind = "json"
          /\ files'[inst.path].tree.first_run = JBool(FALSE)
          /\ \A p \in Paths \ {inst.path} : files'[p] = files[p]
          /\ UNCHANGED <<catalogFile, dirs, themeDir, l10nVars>>]_vars

\* a record that is a first run, and says to open the settings, right after
\* it wrote a file that says it is not
C29_Witness ==
    /\ ret.op = "save"
    /\ _instance # 0
    /\ inst.first_run = "true"
    /\ is_first_run(inst)
    /\ should_open_settings(inst)
    /\ files[inst.path].kind = "json"
    /\ files[inst.path].tree.first_run = JBool(FALSE)

-----------------------------------------------------------------------------
(* Claims about listing and resolving themes together *)

\* C30: for every ThemeInfo t that available_themes() returned,
\* resolve_theme_files(t.name), called next, returns the base stylesheet
\* followed by t.path, whatever the casing of the file names in the theme
\* directory.
C30_ListedThemesResolve ==
    [][(/\ ret.op = "available_themes"
        /\ ret.raised = "none"
        /\ Calls("resolve_theme_files")) =>
          \A i \in 1..Len(ret.list) :
              ret.list[i].name = ret'.text =>
                  /\ ret'.raised = "none"
                  /\ ret'.list = <<base_css, ret.list[i].path>>]_vars
====
